---- MODULE Spec2Model ----
(***************************************************************************)
(* NuvlaBox agent: the peripheral store of agent/AgentApi.py (post,        *)
(* delete) as called by the request-serving threads of app.py, and the     *)
(* telemetry loop of app.py (__main__) with Telemetry.update_status.       *)
(*                                                                         *)
(* Every blocking call of the code (a file-system call, a call to Nuvla)   *)
(* is one step of the thread that makes it; what the file system or Nuvla  *)
(* answers is an input of that step.                                       *)
(***************************************************************************)
EXTENDS Integers, Sequences, FiniteSets, TLC

\* ------------------------------------------------------------------ bounds
\* API calls (post or delete) made in one behaviour, one request at a time.
MaxCalls == 3
\* API calls made in one behaviour by the two request threads together.
MaxConcurrentCalls == 2
\* Job ids one publish response carries.
MaxJobs == 2
\* Seconds one cycle of the telemetry loop takes.
MaxCycleDuration == 6
\* Cycles of the telemetry loop in one behaviour.
MaxCycles == 2

\* ---------------------------------------------------------------- universe
Threads == {1, 2}
Identifiers == {"usb1", "usb2"}
Ifaces == {"eth0", "eth1"}
\* 'version' as a caller gives it, and as post fills it in when it is missing.
GivenVersions == {2}
DefaultVersions == {1}

\* Python's None, as a remote id and as a payload field.
None == 0

\* Python's None as the value of a status attribute or of a str argument.
PyNone == "None"

\* Contents of the path <peripherals_dir>/<identifier>.
NoFile == [kind |-> "nofile", id |-> None, iface |-> "", version |-> None]
Corrupt == [kind |-> "corrupt", id |-> None, iface |-> "", version |-> None]
RecordFile(rid, iface, version) ==
    [kind |-> "json", id |-> rid, iface |-> iface, version |-> version]

\* What the caller of post can pass: something that is no non-empty dict, a
\* dict without 'identifier', or a dict with it (version given or not).
MalformedPayload ==
    [kind |-> "malformed", identifier |-> "", iface |-> "", version |-> None]
IncompletePayload ==
    [kind |-> "noident", identifier |-> "", iface |-> "eth0", version |-> None]
Payloads ==
    {MalformedPayload, IncompletePayload} \cup
    [kind : {"ok"}, identifier : Identifiers, iface : Ifaces,
     version : {None} \cup GivenVersions]

\* Status codes of a nuvla.api NuvlaError response.
NuvlaErrorCodes == {404, 503}
\* Answers of NB.api().add: created, a NuvlaError, any other exception.
AddOutcomes ==
    {[kind |-> "ok", code |-> 201]} \cup
    [kind : {"nuvla_error"}, code : NuvlaErrorCodes] \cup
    {[kind |-> "exception", code |-> None]}
\* Answers of NB.api().delete.
DeleteOutcomes ==
    {[kind |-> "ok", code |-> 200]} \cup
    [kind : {"nuvla_error"}, code : NuvlaErrorCodes] \cup
    {[kind |-> "exception", code |-> None]}
\* local_peripheral_save: written; open() raised (the path is as it was);
\* write() raised after open() truncated or created the file.
SaveOutcomes == {"ok", "open_failed", "write_failed"}
\* The default of 'version': read or inferred, or the read raises.
VersionOutcomes == [kind : {"ok"}, version : DefaultVersions] \cup
                   {[kind |-> "exception", version |-> None]}

VARIABLES
    files,        \* identifier -> content of its record file
    remote,       \* remote ids of the peripheral resources alive in Nuvla
    nextId,       \* the resource-id Nuvla assigns to the next created resource
    pc,           \* thread -> where it is in post / delete
    frame,        \* thread -> the locals of the call it is in
    result,       \* thread -> what its last call returned (or that it raised)
    calls,        \* API calls made so far
    persisted,    \* identifier -> a create saved its record and no delete was called since
    liveCreate,   \* identifier -> a remote create succeeded and no local removal since
    registered,   \* identifier -> remote creates that succeeded since the last delete call
    lastCreate,   \* the call that returned last, when it is a successful create
    mpc,          \* where the main thread is in the telemetry loop
    refresh_interval,
    nuvlabox_info_updated_date,
    nuvlabox_resource,  \* what activation.get_nuvlabox_info() returned this cycle
    status,       \* telemetry.status, the snapshot published last
    response,     \* what telemetry.update_status() returned this cycle
    jobs,         \* the job ids the for loop has still to go through
    dispatched,   \* the job ids the for loop went through this cycle, and how
    next_cycle_in,
    waited,       \* how long e.wait(timeout=next_cycle_in) blocked
    published,    \* what _cimi_put answered this cycle
    failedStep,   \* the step of this cycle that raised, if one did
    cycle,        \* cycles of the telemetry loop completed
    cycle_duration,  \* end_cycle - start_cycle of the cycle completed last
    snapshot,     \* new_status, the snapshot a call of Telemetry.diff is given
    diffed,       \* what that call of Telemetry.diff answered
    peripherals_dir,  \* file name -> content, the directory a call of find lists
    search,       \* the arguments of that call of find
    matched,      \* what that call of find answered
    update_log    \* the calls of Telemetry.update_status so far, in order

storeVars == <<files, remote, nextId, pc, frame, result, calls,
               persisted, liveCreate, registered, lastCreate>>

mainVars == <<mpc, refresh_interval, nuvlabox_info_updated_date,
              nuvlabox_resource, status, response, jobs, dispatched,
              next_cycle_in, waited, published, failedStep, cycle, cycle_duration>>

callVars == <<snapshot, diffed, peripherals_dir, search, matched, update_log>>

vars == <<storeVars, mainVars, callVars>>

\* ------------------------------------------------------------ AgentApi.py
local_peripheral_exists_never(f, identifier) == FALSE

local_peripheral_exists_always(f, identifier) == TRUE

\* os.path.exists(filepath): a name the directory never held has no file.
local_peripheral_exists(f, identifier) ==
    identifier \in DOMAIN f /\ f[identifier].kind # "nofile"

local_peripheral_get_identifier_none(f, identifier) == None

local_peripheral_get_identifier_first(f, identifier) == 1

\* json.loads(f.read())["id"], None when anything raises.
local_peripheral_get_identifier(f, identifier) ==
    IF f[identifier].kind = "json" THEN f[identifier].id ELSE None

NoLastCreate == [identifier |-> "", id |-> None]

EmptyDir == [i \in Identifiers |-> NoFile]

IdleFrame ==
    [op |-> "none", identifier |-> "", payload |-> MalformedPayload,
     nuvla_id |-> None, explicit |-> None, newId |-> None, inPost |-> FALSE,
     saveFailed |-> FALSE, files0 |-> EmptyDir, adds |-> <<>>, dels |-> <<>>,
     persisted0 |-> FALSE, after |-> NoLastCreate]

NoResult ==
    [op |-> "none", identifier |-> "", kind |-> "none", status |-> 0,
     body |-> "", explicit |-> None, newId |-> None, saveFailed |-> FALSE,
     files0 |-> EmptyDir, adds |-> <<>>, dels |-> <<>>,
     persisted0 |-> FALSE, after |-> NoLastCreate, payload_kind |-> "malformed"]

\* The call of thread t, with locals f, ends: kind is "return" (status, body)
\* or "raise".
FinishWith(t, f, op, kind, code, body) ==
    /\ pc' = [pc EXCEPT ![t] = "idle"]
    /\ result' = [result EXCEPT ![t] =
            [op |-> op, identifier |-> f.identifier, kind |-> kind,
             status |-> code, body |-> body, explicit |-> f.explicit,
             newId |-> f.newId, saveFailed |-> f.saveFailed,
             files0 |-> f.files0, adds |-> f.adds, dels |-> f.dels,
             persisted0 |-> f.persisted0, after |-> f.after,
             payload_kind |-> f.payload.kind]]
    /\ frame' = [frame EXCEPT ![t] = IdleFrame]
    /\ lastCreate' =
         IF op = "post" /\ kind = "return" /\ body = "created"
         THEN [identifier |-> f.identifier, id |-> f.newId]
         ELSE NoLastCreate

Finish(t, op, kind, code, body) ==
    FinishWith(t, frame[t], op, kind, code, body)

\* `if e.response.status_code != 404`: the answers of Nuvla's delete on which
\* delete keeps the local file and returns the error.
KeepsLocalCopy_always(code) == TRUE

KeepsLocalCopy_never(code) == FALSE

KeepsLocalCopy(code) == code # 404

Validation_none(payload) == "ok"

\* `if not payload or not isinstance(payload, dict)`, then the KeyError of
\* payload['identifier']: what post rejects the payload as, or "ok".
Validation(payload) ==
    IF payload.kind = "malformed" THEN "malformed"
    ELSE IF payload.kind = "noident" THEN "incomplete"
    ELSE "ok"

\* A request thread enters post(payload). The checks of the payload touch
\* nothing shared and are part of this step.
PostCall(t) ==
    /\ pc[t] = "idle"
    /\ calls < MaxCalls
    /\ calls' = calls + 1
    /\ \E payload \in Payloads :
         LET f == [IdleFrame EXCEPT !.op = "post", !.payload = payload,
                                    !.identifier = payload.identifier,
                                    !.files0 = files, !.after = lastCreate,
                                    !.persisted0 =
                                        IF payload.kind = "ok"
                                        THEN persisted[payload.identifier]
                                        ELSE FALSE]
         IN  IF Validation(payload) # "ok"
             THEN /\ pc' = [pc EXCEPT ![t] = "idle"]
                  /\ result' = [result EXCEPT ![t] =
                        [NoResult EXCEPT !.op = "post", !.kind = "return",
                                         !.status = 400,
                                         !.body = Validation(payload),
                                         !.files0 = files, !.after = lastCreate,
                                         !.payload_kind = payload.kind]]
                  /\ lastCreate' = NoLastCreate
                  /\ UNCHANGED frame
             ELSE /\ pc' = [pc EXCEPT ![t] = "post_exists"]
                  /\ frame' = [frame EXCEPT ![t] = f]
                  /\ UNCHANGED <<result, lastCreate>>
    /\ UNCHANGED <<files, remote, nextId, persisted, liveCreate,
                   registered>>

\* `if local_peripheral_exists(peripheral_filepath)`
PostExists(t) ==
    /\ pc[t] = "post_exists"
    /\ IF local_peripheral_exists(files, frame[t].identifier)
       THEN Finish(t, "post", "return", 400, "conflict")
       ELSE /\ pc' = [pc EXCEPT ![t] = "post_add"]
            /\ UNCHANGED <<frame, result, lastCreate>>
    /\ UNCHANGED <<files, remote, nextId, calls, persisted,
                   liveCreate, registered>>

AddCreated_unless_exception(out) == out.kind # "exception"

\* NB.api().add(...) raised nothing: post goes on to save the record.
AddCreated(out) == out.kind = "ok"

\* The defaults of 'parent' and 'version', then NB.api().add(...).
PostAdd(t) ==
    /\ pc[t] = "post_add"
    /\ \E vout \in VersionOutcomes, out \in AddOutcomes :
         LET version == IF frame[t].payload.version # None
                        THEN frame[t].payload.version ELSE vout.version
             raised == frame[t].payload.version = None /\ vout.kind = "exception"
             i == frame[t].identifier
             issued == [frame[t] EXCEPT !.adds = Append(@, out)]
         IN  /\ frame[t].payload.version # None =>
                    vout = CHOOSE v \in VersionOutcomes : v.kind = "ok"
             /\ raised => out.kind = "ok"
             /\ IF raised
                THEN /\ Finish(t, "post", "raise", 0, "version")
                     /\ UNCHANGED <<remote, nextId, liveCreate, registered>>
                ELSE /\ remote' = IF out.kind = "ok" THEN remote \cup {nextId} ELSE remote
                     /\ nextId' = IF out.kind = "ok" THEN nextId + 1 ELSE nextId
                     /\ liveCreate' = [liveCreate EXCEPT ![i] = @ \/ out.kind = "ok"]
                     /\ registered' = [registered EXCEPT ![i] =
                                            IF out.kind = "ok" THEN @ + 1 ELSE @]
                     /\ IF AddCreated(out)
                        THEN /\ pc' = [pc EXCEPT ![t] = "post_save"]
                             /\ frame' = [frame EXCEPT ![t] =
                                   [issued EXCEPT !.newId = nextId,
                                                  !.payload.version = version]]
                             /\ UNCHANGED <<result, lastCreate>>
                        ELSE IF out.kind = "nuvla_error"
                        THEN FinishWith(t, issued, "post", "return",
                                        out.code, "remote_error")
                        ELSE FinishWith(t, issued, "post", "return",
                                        500, "unable_post")
    /\ UNCHANGED <<files, calls, persisted>>

\* local_peripheral_save(peripheral_filepath, payload); when it raises, post
\* calls delete(peripheral_identifier, peripheral_nuvla_id=payload['id']).
PostSave(t) ==
    /\ pc[t] = "post_save"
    /\ \E out \in SaveOutcomes :
         LET i == frame[t].identifier
         IN  IF out = "ok"
             THEN /\ files' = [files EXCEPT ![i] =
                        RecordFile(frame[t].newId, frame[t].payload.iface,
                                   frame[t].payload.version)]
                  /\ persisted' = [persisted EXCEPT ![i] = TRUE]
                  /\ Finish(t, "post", "return", 201, "created")
                  /\ UNCHANGED registered
             ELSE /\ files' = IF out = "write_failed"
                              THEN [files EXCEPT ![i] = Corrupt] ELSE files
                  /\ persisted' = [persisted EXCEPT ![i] = FALSE]
                  /\ registered' = [registered EXCEPT ![i] = 0]
                  /\ pc' = [pc EXCEPT ![t] = "del_exists"]
                  /\ frame' = [frame EXCEPT ![t].saveFailed = TRUE,
                                            ![t].inPost = TRUE,
                                            ![t].nuvla_id = frame[t].newId]
                  /\ UNCHANGED <<result, lastCreate>>
    /\ UNCHANGED <<remote, nextId, calls, liveCreate>>

\* delete returns (status, body) or raises. Called from post's except clause,
\* its return value is dropped and post returns 500; what it raises, post
\* raises.
FinishDeleteWith(t, f, kind, code, body) ==
    IF f.inPost
    THEN IF kind = "raise"
         THEN FinishWith(t, f, "post", "raise", 0, body)
         ELSE FinishWith(t, f, "post", "return", 500, "unable_fulfill")
    ELSE FinishWith(t, f, "delete", kind, code, body)

FinishDelete(t, kind, code, body) ==
    FinishDeleteWith(t, frame[t], kind, code, body)

\* A request thread enters delete(peripheral_identifier, peripheral_nuvla_id).
DelCall(t) ==
    /\ pc[t] = "idle"
    /\ calls < MaxCalls
    /\ calls' = calls + 1
    /\ \E i \in Identifiers, rid \in {None} \cup (1 .. nextId - 1) :
         /\ frame' = [frame EXCEPT ![t] =
                [IdleFrame EXCEPT !.op = "delete", !.identifier = i,
                                  !.nuvla_id = rid, !.explicit = rid,
                                  !.files0 = files, !.after = lastCreate,
                                  !.persisted0 = persisted[i]]]
         /\ persisted' = [persisted EXCEPT ![i] = FALSE]
         /\ registered' = [registered EXCEPT ![i] = 0]
    /\ pc' = [pc EXCEPT ![t] = "del_exists"]
    /\ UNCHANGED <<files, remote, nextId, result, liveCreate,
                   lastCreate>>

\* `if not local_peripheral_exists(peripheral_filepath)`
DelExists(t) ==
    /\ pc[t] = "del_exists"
    /\ IF ~local_peripheral_exists(files, frame[t].identifier)
       THEN IF frame[t].nuvla_id # None
            THEN /\ pc' = [pc EXCEPT ![t] = "del_remote_only"]
                 /\ UNCHANGED <<frame, result, lastCreate>>
            ELSE FinishDelete(t, "return", 404, "not_found")
       ELSE /\ pc' = [pc EXCEPT ![t] = IF frame[t].nuvla_id # None
                                       THEN "del_remote" ELSE "del_read"]
            /\ UNCHANGED <<frame, result, lastCreate>>
    /\ UNCHANGED <<files, remote, nextId, calls, persisted,
                   liveCreate, registered>>

\* `peripheral_nuvla_id = local_peripheral_get_identifier(peripheral_filepath)`
DelRead(t) ==
    /\ pc[t] = "del_read"
    /\ LET rid == local_peripheral_get_identifier(files, frame[t].identifier)
       IN  /\ frame' = [frame EXCEPT ![t].nuvla_id = rid]
           /\ pc' = [pc EXCEPT ![t] = IF rid # None
                                      THEN "del_remote" ELSE "del_remove"]
    /\ UNCHANGED <<files, remote, nextId, result, calls,
                   persisted, liveCreate, registered, lastCreate>>

\* No local file: NB.api().delete(peripheral_nuvla_id) under
\* `except NuvlaError` alone.
DelRemoteOnly(t) ==
    /\ pc[t] = "del_remote_only"
    /\ \E out \in DeleteOutcomes :
         LET f == [frame[t] EXCEPT
                      !.dels = Append(@, [id |-> frame[t].nuvla_id, out |-> out])]
         IN  /\ remote' = IF out.kind = "ok"
                          THEN remote \ {frame[t].nuvla_id} ELSE remote
             /\ IF out.kind = "ok"
                THEN FinishDeleteWith(t, f, "return", 200, "deleted_remote")
                ELSE IF out.kind = "nuvla_error"
                THEN FinishDeleteWith(t, f, "return", out.code, "remote_error")
                ELSE FinishDeleteWith(t, f, "raise", 0, "delete_exception")
    /\ UNCHANGED <<files, nextId, calls, persisted, liveCreate, registered>>

\* The local file exists: NB.api().delete(peripheral_nuvla_id) under
\* `except NuvlaError` and `except Exception`.
DelRemote(t) ==
    /\ pc[t] = "del_remote"
    /\ \E out \in DeleteOutcomes :
         LET f == [frame[t] EXCEPT
                      !.dels = Append(@, [id |-> frame[t].nuvla_id, out |-> out])]
         IN  /\ remote' = IF out.kind = "ok"
                          THEN remote \ {frame[t].nuvla_id} ELSE remote
             /\ IF out.kind = "ok"
                THEN /\ pc' = [pc EXCEPT ![t] = "del_remove_try"]
                     /\ frame' = [frame EXCEPT ![t] = f]
                     /\ UNCHANGED <<result, lastCreate>>
                ELSE IF out.kind = "nuvla_error"
                THEN IF KeepsLocalCopy(out.code)
                     THEN FinishDeleteWith(t, f, "return", out.code, "remote_error")
                     ELSE /\ pc' = [pc EXCEPT ![t] = "del_remove"]
                          /\ frame' = [frame EXCEPT ![t] = f]
                          /\ UNCHANGED <<result, lastCreate>>
                ELSE FinishDeleteWith(t, f, "return", 500, "delete_error")
    /\ UNCHANGED <<files, nextId, calls, persisted, liveCreate, registered>>

\* os.remove(peripheral_filepath) inside the try: a file that is gone raises
\* FileNotFoundError, which `except Exception` turns into a 500. Removing a
\* file that is there is taken to succeed, here and in DelRemove.
DelRemoveTry(t) ==
    /\ pc[t] = "del_remove_try"
    /\ LET i == frame[t].identifier
       IN  IF local_peripheral_exists(files, i)
           THEN /\ files' = [files EXCEPT ![i] = NoFile]
                /\ liveCreate' = [liveCreate EXCEPT ![i] = FALSE]
                /\ FinishDelete(t, "return", 200, "deleted_remote")
           ELSE /\ UNCHANGED <<files, liveCreate>>
                /\ FinishDelete(t, "return", 500, "delete_error")
    /\ UNCHANGED <<remote, nextId, calls, persisted, registered>>

\* os.remove(peripheral_filepath) after the try: nothing catches what it raises.
DelRemove(t) ==
    /\ pc[t] = "del_remove"
    /\ LET i == frame[t].identifier
       IN  IF local_peripheral_exists(files, i)
           THEN /\ files' = [files EXCEPT ![i] = NoFile]
                /\ liveCreate' = [liveCreate EXCEPT ![i] = FALSE]
                /\ FinishDelete(t, "return", 200, "deleted_message")
           ELSE /\ UNCHANGED <<files, liveCreate>>
                /\ FinishDelete(t, "raise", 0, "remove_exception")
    /\ UNCHANGED <<remote, nextId, calls, persisted, registered>>

\* ------------------------------------------------------- AgentApi.find
\* The names a peripherals directory can hold in a call of find.
FileNames == {"usb1", "usb2", "usb3"}

\* A path open() raises for (removed since glob listed it, a directory, no
\* permission).
Unreadable == [kind |-> "unreadable", id |-> None, iface |-> "", version |-> None]

\* Directories find can list: per name no file, a file json.loads raises
\* for, a path open() raises for, or a record as local_peripheral_save wrote.
Directories ==
    [FileNames -> {NoFile, Corrupt, Unreadable} \cup
                  {RecordFile(rid, iface, version) :
                       rid \in {1}, iface \in Ifaces, version \in DefaultVersions}]

\* The arguments of find: each may be None, as request.args.get returns
\* for a missing query parameter.
Searches ==
    [parameter : {PyNone, "interface", "vendor"},
     value : {PyNone} \cup Ifaces,
     identifier_pattern : {PyNone, "usb1"}]

\* Python's truth of a str-or-None argument.
Truthy(x) == x \notin {PyNone, ""}

\* `parameter in content and content[parameter] == value` for the content
\* json.loads gave: 'interface' is the one key of the records searched here.
ContentMatches(content, parameter, value) ==
    parameter = "interface" /\ content.iface = value

\* glob.glob(search_dir): the paths that exist and match, in arbitrary order.
glob(dir, identifier_pattern) ==
    LET names == {n \in DOMAIN dir :
                     /\ dir[n] # NoFile
                     /\ Truthy(identifier_pattern) => n = identifier_pattern}
    IN  {q \in [1 .. Cardinality(names) -> names] :
             \A i, j \in DOMAIN q : i # j => q[i] # q[j]}

find_unfiltered(dir, filenames, parameter, value) ==
    [kind |-> "return", code |-> 200, matched_peripherals |-> filenames]

\* find, given the order glob lists the directory in. open(filename) is
\* outside the try: when it raises, find raises. json.loads is inside it: a
\* file it cannot parse is passed over.
find(dir, filenames, parameter, value) ==
    IF Truthy(parameter) /\ Truthy(value)
    THEN IF \E i \in DOMAIN filenames : dir[filenames[i]] = Unreadable
         THEN [kind |-> "raise", code |-> None, matched_peripherals |-> <<>>]
         ELSE [kind |-> "return", code |-> 200,
               matched_peripherals |->
                   SelectSeq(filenames,
                             LAMBDA n : /\ dir[n].kind = "json"
                                        /\ ContentMatches(dir[n], parameter, value))]
    ELSE [kind |-> "return", code |-> 200, matched_peripherals |-> filenames]


\* ------------------------------------------------------------ Telemetry.py
\* The keys of Telemetry.status, in the order __init__ inserts them.
KeyOrder ==
    <<"resources", "status", "nuvlabox-api-endpoint", "operating-system",
      "architecture", "ip", "last-boot", "hostname", "docker-server-version",
      "gpio-pins">>

Keys == {KeyOrder[k] : k \in 1 .. Len(KeyOrder)}

\* self.status as __init__ leaves it.
InitialStatus == [k \in Keys |-> PyNone]

\* status_for_nuvla as get_status builds it: 'gpio-pins' is set only when the
\* gpio utility is there and reports pins; get_ip may return None.
Absent == "absent"
Collected(resources, ip, pins) ==
    [k \in (IF pins = Absent THEN Keys \ {"gpio-pins"} ELSE Keys) |->
        CASE k = "resources" -> resources
          [] k = "ip" -> ip
          [] k = "gpio-pins" -> pins
          [] OTHER -> k]

Snapshots ==
    {Collected(r, ip, pins) : r \in {"load1", "load2"},
                              ip \in {PyNone, "10.0.0.1"},
                              pins \in {Absent, "pins"}}

\* What get_status can collect for diff: get_nuvlabox_api_endpoint may return
\* None too, and the pins read differ from one call to the next.
CollectedSnapshots ==
    {[Collected(r, ip, pins) EXCEPT !["nuvlabox-api-endpoint"] = endpoint] :
        r \in {"load1", "load2"}, ip \in {PyNone, "10.0.0.1"},
        endpoint \in {PyNone, "nuvlabox-api-endpoint"},
        pins \in {Absent, "pins", "pins2"}}

\* self.status when diff is called: as __init__ left it, or the snapshot of
\* an update_status that went through (diff returned for it).
PublishedStatuses ==
    {InitialStatus} \cup {S \in CollectedSnapshots : DOMAIN S = Keys}

diff_no_compare(old_status, new_status) ==
    IF \E k \in Keys : k \notin DOMAIN new_status
    THEN [kind |-> "exception", minimal_update |-> <<>>, delete_attributes |-> <<>>]
    ELSE [kind |-> "ok",
          minimal_update |->
              [k \in {x \in Keys : new_status[x] # PyNone} |-> new_status[k]],
          delete_attributes |->
              SelectSeq(KeyOrder, LAMBDA k : new_status[k] = PyNone)]

\* diff raises KeyError at the first key it cannot look up; else it returns
\* (minimal_update, delete_attributes).
diff(old_status, new_status) ==
    IF \E k \in Keys : \/ k \notin DOMAIN new_status
                       \/ new_status[k] # PyNone /\ k \notin DOMAIN old_status
    THEN [kind |-> "exception", minimal_update |-> <<>>, delete_attributes |-> <<>>]
    ELSE [kind |-> "ok",
          minimal_update |->
              [k \in {x \in Keys : /\ new_status[x] # PyNone
                                   /\ old_status[x] # new_status[x]} |->
                  new_status[k]],
          delete_attributes |->
              SelectSeq(KeyOrder, LAMBDA k : new_status[k] = PyNone)]

\* ------------------------------------------------------------------ app.py
JobIds == {"job/1", "job/2"}
JobLists == UNION {[1 .. n -> JobIds] : n \in 0 .. MaxJobs}

\* A value `response` can hold: None, or a dict with or without 'jobs'.
NoneResponse == [isNone |-> TRUE, hasJobs |-> FALSE, jobs |-> <<>>]
Responses ==
    {NoneResponse, [isNone |-> FALSE, hasJobs |-> FALSE, jobs |-> <<>>]} \cup
    [isNone : {FALSE}, hasJobs : {TRUE}, jobs : JobLists]

\* `refresh_interval = 5`
InitialRefreshInterval == 5
RefreshIntervals == {10, 30}

\* The nuvlabox resource as get_nuvlabox_info returns it.
NoResource == [updated |-> "", refresh |-> InitialRefreshInterval, vpn |-> FALSE]
Resources == [updated : {"t1", "t2"}, refresh : RefreshIntervals, vpn : BOOLEAN]

\* Job(...) raises; job.do_nothing; job.launch() returns; job.launch() raises.
JobOutcomes == {"build_exception", "do_nothing", "launched", "launch_exception"}

\* Nothing in the loop catches the exception: the main thread ends.
Crash(step) ==
    /\ mpc' = "crashed"
    /\ failedStep' = step

\* update_status has no return statement.
update_status_result(put) == NoneResponse

ResourceUpdated_always(date, r) == TRUE

\* `if nuvlabox_info_updated_date != nuvlabox_resource['updated']`
ResourceUpdated(date, r) == date # r.updated

\* activation.get_nuvlabox_info() and the `if` on its 'updated' date.
GetInfo ==
    /\ mpc = "get_info"
    /\ cycle < MaxCycles
    /\ \E got \in BOOLEAN, r \in Resources, written \in BOOLEAN :
         /\ ~got => (r = CHOOSE x \in Resources : TRUE) /\ written
         /\ IF ~got
            THEN /\ Crash("config")
                 /\ UNCHANGED <<refresh_interval, nuvlabox_info_updated_date,
                                nuvlabox_resource>>
            ELSE /\ nuvlabox_resource' = r
                 /\ IF ResourceUpdated(nuvlabox_info_updated_date, r)
                    THEN /\ refresh_interval' = r.refresh
                         /\ nuvlabox_info_updated_date' = r.updated
                         /\ IF written
                            THEN mpc' = "vpn" /\ UNCHANGED failedStep
                            ELSE Crash("config")
                    ELSE /\ written
                         /\ mpc' = "vpn"
                         /\ UNCHANGED <<refresh_interval, nuvlabox_info_updated_date,
                                        failedStep>>
    /\ dispatched' = <<>>
    /\ published' = NoneResponse
    /\ UNCHANGED <<status, response, jobs, next_cycle_in, waited, cycle, cycle_duration>>

\* `if nuvlabox_resource.get("vpn-server-id"): infra.watch_vpn_credential(...)`
WatchVpn ==
    /\ mpc = "vpn"
    /\ \E raised \in BOOLEAN :
         /\ raised => nuvlabox_resource.vpn
         /\ IF raised
            THEN Crash("vpn")
            ELSE mpc' = "update_status" /\ UNCHANGED failedStep
    /\ UNCHANGED <<refresh_interval, nuvlabox_info_updated_date, nuvlabox_resource,
                   status, response, jobs, dispatched, next_cycle_in, waited,
                   published, cycle, cycle_duration>>

CollectOutcomes == [kind : {"ok"}, snap : Snapshots] \cup
                   {[kind |-> "exception", snap |-> InitialStatus]}
PutOutcomes == [kind : {"ok"}, answer : Responses \ {NoneResponse}] \cup
               {[kind |-> "exception", answer |-> NoneResponse]}

\* `response = telemetry.update_status()`: get_status, diff, _cimi_put,
\* self.status = new_status, the write of the status file.
UpdateStatus ==
    /\ mpc = "update_status"
    /\ \E got \in CollectOutcomes, put \in PutOutcomes, written \in BOOLEAN :
         LET d == diff(status, got.snap)
             reachedPut == got.kind = "ok" /\ d.kind = "ok"
         IN  /\ ~reachedPut => put.kind = "exception"
             /\ ~(reachedPut /\ put.kind = "ok") => written
             /\ IF reachedPut /\ put.kind = "ok"
                THEN /\ status' = got.snap
                     /\ published' = put.answer
                     /\ IF written
                        THEN /\ response' = update_status_result(put.answer)
                             /\ mpc' = "check_jobs"
                             /\ UNCHANGED failedStep
                        ELSE /\ Crash("publish")
                             /\ UNCHANGED response
                ELSE /\ Crash("publish")
                     /\ UNCHANGED <<status, published, response>>
    /\ UNCHANGED <<refresh_interval, nuvlabox_info_updated_date, nuvlabox_resource,
                   jobs, dispatched, next_cycle_in, waited, cycle, cycle_duration>>

\* `if isinstance(response.get('jobs'), list) and infra.job_engine_lite_image
\*  and response.get('jobs')`: response.get on None raises AttributeError.
CheckJobs ==
    /\ mpc = "check_jobs"
    /\ \E job_engine_lite_image \in BOOLEAN :
         /\ (response.isNone \/ ~response.hasJobs \/ response.jobs = <<>>)
                => job_engine_lite_image
         /\ IF response.isNone
            THEN Crash("response") /\ UNCHANGED jobs
            ELSE IF response.hasJobs /\ job_engine_lite_image /\ response.jobs # <<>>
            THEN /\ jobs' = response.jobs
                 /\ mpc' = "jobs"
                 /\ UNCHANGED failedStep
            ELSE /\ mpc' = "commission"
                 /\ UNCHANGED <<jobs, failedStep>>
    /\ UNCHANGED <<refresh_interval, nuvlabox_info_updated_date, nuvlabox_resource,
                   status, response, dispatched, next_cycle_in, waited, published,
                   cycle, cycle_duration>>

\* Is the exception a job raises at this point inside the `try`?
CaughtInLoop(out) == out = "launch_exception"

\* One turn of `for job_id in response['jobs']`.
JobStep ==
    /\ mpc = "jobs"
    /\ jobs # <<>>
    /\ \E out \in JobOutcomes :
         /\ dispatched' = Append(dispatched, [id |-> Head(jobs), out |-> out])
         /\ IF out \in {"build_exception", "launch_exception"} /\ ~CaughtInLoop(out)
            THEN Crash("dispatch") /\ UNCHANGED jobs
            ELSE /\ jobs' = Tail(jobs)
                 /\ mpc' = IF Tail(jobs) = <<>> THEN "commission" ELSE "jobs"
                 /\ UNCHANGED failedStep
    /\ UNCHANGED <<refresh_interval, nuvlabox_info_updated_date, nuvlabox_resource,
                   status, response, next_cycle_in, waited, published, cycle, cycle_duration>>

\* infra.try_commission()
TryCommission ==
    /\ mpc = "commission"
    /\ \E raised \in BOOLEAN :
         IF raised
         THEN Crash("commission")
         ELSE mpc' = "sleep" /\ UNCHANGED failedStep
    /\ UNCHANGED <<refresh_interval, nuvlabox_info_updated_date, nuvlabox_resource,
                   status, response, jobs, dispatched, next_cycle_in, waited,
                   published, cycle, cycle_duration>>

NextCycleIn_single(R, T) == R - T

NextCycleIn_uncompensated(R, T) == R

\* `next_cycle_in = refresh_interval - 2 * cycle_duration`
NextCycleIn(R, T) == R - 2 * T

\* e.wait(timeout): a timeout that is not positive returns at once.
EventWait(timeout) == IF timeout > 0 THEN timeout ELSE 0

\* The end of the cycle: the two time.time() readings are cycle_duration apart.
Sleep ==
    /\ mpc = "sleep"
    /\ \E T \in 0 .. MaxCycleDuration :
         /\ cycle_duration' = T
         /\ next_cycle_in' = NextCycleIn(refresh_interval, T)
         /\ waited' = EventWait(next_cycle_in')
    /\ mpc' = "get_info"
    /\ cycle' = cycle + 1
    /\ UNCHANGED <<refresh_interval, nuvlabox_info_updated_date, nuvlabox_resource,
                   status, response, jobs, dispatched, published, failedStep>>

MainInit ==
    /\ mpc = "get_info"
    /\ refresh_interval = InitialRefreshInterval
    /\ nuvlabox_info_updated_date = ""
    /\ nuvlabox_resource = NoResource
    /\ status = InitialStatus
    /\ response = NoneResponse
    /\ jobs = <<>>
    /\ dispatched = <<>>
    /\ next_cycle_in = 0
    /\ waited = 0
    /\ published = NoneResponse
    /\ failedStep = "none"
    /\ cycle = 0
    /\ cycle_duration = 0

\* No call of Telemetry.diff or of find is made or in progress.
NoDiff == [kind |-> "none", minimal_update |-> <<>>, delete_attributes |-> <<>>]
NoSearch == [parameter |-> PyNone, value |-> PyNone, identifier_pattern |-> PyNone]
NoMatch == [kind |-> "none", code |-> None, matched_peripherals |-> <<>>]
CallInit ==
    /\ snapshot = InitialStatus
    /\ diffed = NoDiff
    /\ peripherals_dir = <<>>
    /\ search = NoSearch
    /\ matched = NoMatch
    /\ update_log = <<>>

StoreInit ==
    /\ files = EmptyDir
    /\ remote = {}
    /\ nextId = 1
    /\ pc = [t \in Threads |-> "idle"]
    /\ frame = [t \in Threads |-> IdleFrame]
    /\ result = [t \in Threads |-> NoResult]
    /\ calls = 0
    /\ persisted = [i \in Identifiers |-> FALSE]
    /\ liveCreate = [i \in Identifiers |-> FALSE]
    /\ registered = [i \in Identifiers |-> 0]
    /\ lastCreate = NoLastCreate

ThreadStep(t) ==
    \/ PostCall(t) /\ UNCHANGED <<mainVars, callVars>>
    \/ PostExists(t) /\ UNCHANGED <<mainVars, callVars>>
    \/ PostAdd(t) /\ UNCHANGED <<mainVars, callVars>>
    \/ PostSave(t) /\ UNCHANGED <<mainVars, callVars>>
    \/ DelCall(t) /\ UNCHANGED <<mainVars, callVars>>
    \/ DelExists(t) /\ UNCHANGED <<mainVars, callVars>>
    \/ DelRead(t) /\ UNCHANGED <<mainVars, callVars>>
    \/ DelRemoteOnly(t) /\ UNCHANGED <<mainVars, callVars>>
    \/ DelRemote(t) /\ UNCHANGED <<mainVars, callVars>>
    \/ DelRemoveTry(t) /\ UNCHANGED <<mainVars, callVars>>
    \/ DelRemove(t) /\ UNCHANGED <<mainVars, callVars>>

Init == StoreInit /\ MainInit /\ CallInit

\* One request at a time: the contract of post and delete.
Next == ThreadStep(1)

Spec == Init /\ [][Next]_vars

\* Requests served by two threads at once.
NextConcurrent ==
    \E t \in Threads : ThreadStep(t) /\ calls' <= MaxConcurrentCalls

SpecConcurrent == Init /\ [][NextConcurrent]_vars

\* The remote deletes thread t has issued in the call it is in, or in the
\* call it made last.
DelsOf(fr, res, p, t) == IF p[t] = "idle" THEN res[t].dels ELSE fr[t].dels
AddsOf(fr, res, p, t) == IF p[t] = "idle" THEN res[t].adds ELSE fr[t].adds

\* Two request threads on one identifier with nothing failing around them:
\* NB.api().add and local_peripheral_save succeed, NB.api().delete succeeds
\* for a resource that is there and answers 404 for one that is not, a remote
\* id given to delete is the id of a resource that is there, and no two calls
\* of post run at once.
NextRace ==
    \E t \in Threads :
        /\ ThreadStep(t)
        /\ frame'[t].identifier \in {"", "usb1"}
        /\ (pc[t] = "idle" /\ frame'[t].explicit # None) =>
               frame'[t].explicit \in remote
        /\ ~frame'[t].saveFailed
        /\ pc'[t] = "idle" => result'[t].kind = "return"
        /\ ~(\A u \in Threads : frame'[u].op = "post")
        /\ \A k \in 1 .. Len(AddsOf(frame', result', pc', t)) :
               AddsOf(frame', result', pc', t)[k].kind = "ok"
        /\ pc[t] \in {"del_remote", "del_remote_only"} =>
               LET d == DelsOf(frame', result', pc', t)
               IN  d[Len(d)].out =
                       IF d[Len(d)].id \in remote
                       THEN [kind |-> "ok", code |-> 200]
                       ELSE [kind |-> "nuvla_error", code |-> 404]

\* The agent starts over a peripherals directory that holds the record of a
\* create served before: the files outlive the process.
RaceInit ==
    /\ files = [EmptyDir EXCEPT !["usb1"] =
                    RecordFile(1, "eth0", CHOOSE v \in DefaultVersions : TRUE)]
    /\ remote = {1}
    /\ nextId = 2
    /\ pc = [t \in Threads |-> "idle"]
    /\ frame = [t \in Threads |-> IdleFrame]
    /\ result = [t \in Threads |-> NoResult]
    /\ calls = 0
    /\ persisted = [i \in Identifiers |-> i = "usb1"]
    /\ liveCreate = [i \in Identifiers |-> i = "usb1"]
    /\ registered = [i \in Identifiers |-> IF i = "usb1" THEN 1 ELSE 0]
    /\ lastCreate = NoLastCreate
    /\ MainInit
    /\ CallInit

SpecRace == RaceInit /\ [][NextRace]_vars

\* The main thread of app.py from `while True` on. update_status returns None,
\* so the loop ends at the `if` on response of the first cycle that publishes.
NextMain ==
    \/ GetInfo /\ UNCHANGED <<storeVars, callVars>>
    \/ WatchVpn /\ UNCHANGED <<storeVars, callVars>>
    \/ UpdateStatus /\ UNCHANGED <<storeVars, callVars>>
    \/ CheckJobs /\ UNCHANGED <<storeVars, callVars>>

SpecMain == Init /\ [][NextMain]_vars

\* The rest of a cycle taken on its own, from the `if` on response, for every
\* value a publish could hand it and for every refresh interval.
DispatchInit ==
    /\ StoreInit
    /\ mpc = "check_jobs"
    /\ refresh_interval \in RefreshIntervals \cup {InitialRefreshInterval}
    /\ nuvlabox_info_updated_date = "t1"
    /\ nuvlabox_resource = [updated |-> "t1", refresh |-> refresh_interval,
                            vpn |-> FALSE]
    /\ status = Collected("load1", "10.0.0.1", "pins")
    /\ response \in Responses
    /\ published = response
    /\ jobs = <<>>
    /\ dispatched = <<>>
    /\ next_cycle_in = 0
    /\ waited = 0
    /\ failedStep = "none"
    /\ cycle = 0
    /\ cycle_duration = 0
    /\ CallInit

NextDispatch ==
    \/ CheckJobs /\ UNCHANGED <<storeVars, callVars>>
    \/ JobStep /\ UNCHANGED <<storeVars, callVars>>
    \/ TryCommission /\ UNCHANGED <<storeVars, callVars>>
    \/ Sleep /\ UNCHANGED <<storeVars, callVars>>

SpecDispatch == DispatchInit /\ [][NextDispatch]_vars

\* The whole loop from the same states on: the cycle under way ends with its
\* wait and the next one begins with get_nuvlabox_info.
NextCycle ==
    \/ GetInfo /\ UNCHANGED <<storeVars, callVars>>
    \/ WatchVpn /\ UNCHANGED <<storeVars, callVars>>
    \/ UpdateStatus /\ UNCHANGED <<storeVars, callVars>>
    \/ CheckJobs /\ UNCHANGED <<storeVars, callVars>>
    \/ JobStep /\ UNCHANGED <<storeVars, callVars>>
    \/ TryCommission /\ UNCHANGED <<storeVars, callVars>>
    \/ Sleep /\ UNCHANGED <<storeVars, callVars>>

SpecCycle == DispatchInit /\ [][NextCycle]_vars

\* One call of Telemetry.diff(self.status, new_status), for every status the
\* telemetry can hold and every snapshot get_status can collect.
DiffInit ==
    /\ StoreInit
    /\ mpc = "update_status"
    /\ refresh_interval = InitialRefreshInterval
    /\ nuvlabox_info_updated_date = ""
    /\ nuvlabox_resource = NoResource
    /\ status \in PublishedStatuses
    /\ response = NoneResponse
    /\ jobs = <<>>
    /\ dispatched = <<>>
    /\ next_cycle_in = 0
    /\ waited = 0
    /\ published = NoneResponse
    /\ failedStep = "none"
    /\ cycle = 0
    /\ cycle_duration = 0
    /\ snapshot \in CollectedSnapshots
    /\ diffed = NoDiff
    /\ peripherals_dir = <<>>
    /\ search = NoSearch
    /\ matched = NoMatch
    /\ update_log = <<>>

\* `updated_status, delete_attributes = self.diff(self.status, new_status)`
CallDiff ==
    /\ diffed = NoDiff
    /\ diffed' = diff(status, snapshot)
    /\ UNCHANGED <<storeVars, mainVars, snapshot, peripherals_dir, search, matched,
                   update_log>>

NextDiff == CallDiff

SpecDiff == DiffInit /\ [][NextDiff]_vars

\* One call of find, for every directory and every choice of arguments.
FindInit ==
    /\ StoreInit
    /\ MainInit
    /\ snapshot = InitialStatus
    /\ diffed = NoDiff
    /\ peripherals_dir \in Directories
    /\ search \in Searches
    /\ matched = NoMatch
    /\ update_log = <<>>

\* `message, return_code = AgentApi.find(parameter, value, identifier_pattern)`
CallFind ==
    /\ matched = NoMatch
    /\ \E filenames \in glob(peripherals_dir, search.identifier_pattern) :
         matched' = find(peripherals_dir, filenames, search.parameter, search.value)
    /\ UNCHANGED <<storeVars, mainVars, snapshot, diffed, peripherals_dir, search,
                   update_log>>

NextFind == CallFind

SpecFind == FindInit /\ [][NextFind]_vars

StatusAssigned_always(outcome) == TRUE

\* How a call of update_status ends: get_status raised, diff raised,
\* _cimi_put raised, the write of the status file raised, or it returned.
\* `self.status = new_status` is reached in the last two.
StatusAssigned(outcome) == outcome \in {"write_exception", "returned"}

\* One call of telemetry.update_status(): get_status, diff, _cimi_put,
\* self.status = new_status, the write of the status file.
CallUpdateStatus ==
    /\ Len(update_log) < MaxCycles
    /\ \E got \in CollectOutcomes, put \in {"ok", "exception"}, written \in BOOLEAN :
         LET d == IF got.kind = "ok" THEN diff(status, got.snap) ELSE NoDiff
             outcome == IF got.kind # "ok" THEN "collect_exception"
                        ELSE IF d.kind # "ok" THEN "diff_exception"
                        ELSE IF put # "ok" THEN "put_exception"
                        ELSE IF ~written THEN "write_exception"
                        ELSE "returned"
         IN  /\ outcome \in {"collect_exception", "diff_exception"} => put = "ok"
             /\ outcome # "write_exception" => written
             /\ snapshot' = IF got.kind = "ok" THEN got.snap ELSE snapshot
             /\ diffed' = d
             /\ status' = IF StatusAssigned(outcome) THEN got.snap ELSE status
             /\ update_log' = Append(update_log,
                    [status0 |-> status, collected |-> got.kind = "ok",
                     snapshot |-> got.snap, diffed |-> d, outcome |-> outcome])
    /\ UNCHANGED <<storeVars, mpc, refresh_interval, nuvlabox_info_updated_date,
                   nuvlabox_resource, response, jobs, dispatched, next_cycle_in,
                   waited, published, failedStep, cycle, cycle_duration,
                   peripherals_dir, search, matched>>

NextTelemetry == CallUpdateStatus

\* The Telemetry object from its construction on, update_status called again
\* and again by a caller that goes on whatever a call did.
SpecTelemetry == Init /\ [][NextTelemetry]_vars

\* ------------------------------------------------------------------ claims
\* The call thread 1 made last has returned (or raised) and no call is running.
Returned(op) == pc[1] = "idle" /\ result[1].op = op

\* C1: a create for an identifier whose record an earlier create persisted,
\* with no delete of that identifier since, returns 400 (conflict), issues no
\* remote create and leaves the record files as they were.
C1_DuplicateCreateRejected ==
    (Returned("post") /\ result[1].persisted0) =>
        /\ result[1].kind = "return"
        /\ result[1].status = 400
        /\ result[1].body = "conflict"
        /\ result[1].adds = <<>>
        /\ files = result[1].files0

C1_Witness ==
    /\ Returned("post")
    /\ result[1].persisted0
    /\ result[1].body = "conflict"
    /\ files[result[1].identifier].kind = "json"

\* C2 (as claimed): under two request threads, no identifier gets a second
\* successful remote create while no delete of it intervenes.
C2_NoDuplicateRegistration ==
    \A i \in Identifiers : registered[i] <= 1

\* C3: delete(identifier) without a remote id, right after the successful
\* create of that identifier and with Nuvla's delete succeeding, leaves no
\* record file and issues one remote delete, for the id that create got.
C3_CreateThenDelete ==
    (/\ Returned("delete")
     /\ result[1].after.identifier = result[1].identifier
     /\ result[1].explicit = None
     /\ \A k \in 1 .. Len(result[1].dels) : result[1].dels[k].out.kind = "ok") =>
        /\ files[result[1].identifier] = NoFile
        /\ Len(result[1].dels) = 1
        /\ result[1].dels[1].id = result[1].after.id

C3_Witness ==
    /\ Returned("delete")
    /\ result[1].after.identifier = result[1].identifier
    /\ result[1].explicit = None
    /\ Len(result[1].dels) = 1
    /\ result[1].dels[1].out.kind = "ok"
    /\ files[result[1].identifier] = NoFile

\* The remote deletes of the last call were issued and all answered in Answers.
DeletesAnswered(Answers) ==
    /\ result[1].dels # <<>>
    /\ \A k \in 1 .. Len(result[1].dels) : result[1].dels[k].out \in Answers

NotFoundAnswer == [kind |-> "nuvla_error", code |-> 404]

\* C4: delete on an existing record file whose remote delete answers 404
\* removes the file and returns 200.
C4_IdempotentDelete ==
    (/\ Returned("delete")
     /\ result[1].files0[result[1].identifier] # NoFile
     /\ DeletesAnswered({NotFoundAnswer})) =>
        /\ files[result[1].identifier] = NoFile
        /\ result[1].kind = "return"
        /\ result[1].status = 200

C4_Witness ==
    /\ Returned("delete")
    /\ result[1].files0[result[1].identifier].kind = "json"
    /\ DeletesAnswered({NotFoundAnswer})
    /\ files[result[1].identifier] = NoFile

\* C5 (as claimed): a create whose local write failed after the remote create
\* issued one remote delete, for the new remote id, and returned 500.
C5_CompensatingDelete ==
    (Returned("post") /\ result[1].saveFailed) =>
        /\ Len(result[1].dels) = 1
        /\ result[1].dels[1].id = result[1].newId
        /\ result[1].kind = "return"
        /\ result[1].status = 500

\* C6: delete on an existing record file whose remote delete fails with a
\* NuvlaError other than 404, or with any other exception, leaves the record
\* files as they were and returns that error (the NuvlaError's status code,
\* 500 for another exception).
C6_FailedDeleteKeepsRecord ==
    (/\ Returned("delete")
     /\ result[1].files0[result[1].identifier] # NoFile
     /\ DeletesAnswered(DeleteOutcomes \ {[kind |-> "ok", code |-> 200],
                                         NotFoundAnswer})) =>
        /\ files = result[1].files0
        /\ result[1].kind = "return"
        /\ Len(result[1].dels) = 1
        /\ result[1].status = IF result[1].dels[1].out.kind = "nuvla_error"
                              THEN result[1].dels[1].out.code ELSE 500
        /\ result[1].body = IF result[1].dels[1].out.kind = "nuvla_error"
                            THEN "remote_error" ELSE "delete_error"

C6_Witness ==
    /\ Returned("delete")
    /\ result[1].files0[result[1].identifier].kind = "json"
    /\ DeletesAnswered({[kind |-> "nuvla_error", code |-> 503]})
    /\ result[1].status = 503
    /\ files = result[1].files0

C8_StepFailureCaught ==
    failedStep \in {"config", "vpn", "publish", "dispatch", "commission"} =>
        mpc # "crashed"

\* The job ids the for loop went through this cycle, in order.
DispatchedIds == [k \in 1 .. Len(dispatched) |-> dispatched[k].id]

\* C9 (as claimed): once a cycle whose publish was answered with a non-empty
\* list of job ids is past its dispatch step, the ids handed to Job are those
\* of the list, once each and in the list's order.
C9_PendingJobsDispatched ==
    (/\ published.hasJobs
     /\ published.jobs # <<>>
     /\ failedStep # "publish"
     /\ mpc \in {"commission", "sleep", "crashed"}) =>
        DispatchedIds = published.jobs

CycleDone == mpc = "get_info" /\ cycle > 0

ClampedWait(R, T) == IF R - 2 * T > 0 THEN R - 2 * T ELSE 0

Deleted(d) == {d.delete_attributes[i] : i \in 1 .. Len(d.delete_attributes)}

\* C12: when the old and the new snapshot define every key of the schema, a
\* key whose new value is None is in the delete list and not in the update
\* map; a key whose value changed is mapped to its new value; any other key
\* is in neither. diff(S, S) is ({}, []) when no field of S is None.
C12_DiffContract ==
    (diffed # NoDiff /\ DOMAIN status = Keys /\ DOMAIN snapshot = Keys) =>
        /\ diffed.kind = "ok"
        /\ \A k \in Keys :
             IF snapshot[k] = PyNone
             THEN k \in Deleted(diffed) /\ k \notin DOMAIN diffed.minimal_update
             ELSE IF status[k] # snapshot[k]
             THEN /\ k \in DOMAIN diffed.minimal_update
                  /\ diffed.minimal_update[k] = snapshot[k]
                  /\ k \notin Deleted(diffed)
             ELSE /\ k \notin DOMAIN diffed.minimal_update
                  /\ k \notin Deleted(diffed)
        /\ (status = snapshot /\ \A k \in Keys : snapshot[k] # PyNone) =>
             /\ DOMAIN diffed.minimal_update = {}
             /\ diffed.delete_attributes = <<>>

C12_Witness ==
    /\ diffed.kind = "ok"
    /\ snapshot["ip"] = PyNone
    /\ status["ip"] # PyNone
    /\ status["resources"] # snapshot["resources"]
    /\ status["gpio-pins"] = snapshot["gpio-pins"]
    /\ DOMAIN diffed.minimal_update = {"resources"}

\* The identifiers a call of find returned, as a set.
Matched == {matched.matched_peripherals[i] : i \in 1 .. Len(matched.matched_peripherals)}

\* find was called with parameter and value given and no pattern.
FilteredSearch ==
    /\ matched # NoMatch
    /\ Truthy(search.parameter)
    /\ Truthy(search.value)
    /\ search.identifier_pattern = PyNone

\* C13: find(parameter, value, None), with parameter and value given, over
\* record files that can be opened, returns 200 and each identifier exactly
\* once whose record has parameter equal to value, and no other; for records
\* with interface eth0, eth1, eth0 and the search interface = eth0 these are
\* the two eth0 identifiers.
C13_FindExactMatches ==
    (FilteredSearch /\ \A n \in FileNames : peripherals_dir[n] # Unreadable) =>
        /\ matched.kind = "return"
        /\ matched.code = 200
        /\ Matched = {n \in FileNames :
                         /\ peripherals_dir[n].kind = "json"
                         /\ search.parameter = "interface"
                         /\ peripherals_dir[n].iface = search.value}
        /\ Len(matched.matched_peripherals) = Cardinality(Matched)
        /\ ( /\ \A n \in FileNames : peripherals_dir[n].kind = "json"
             /\ peripherals_dir["usb1"].iface = "eth0"
             /\ peripherals_dir["usb2"].iface = "eth1"
             /\ peripherals_dir["usb3"].iface = "eth0"
             /\ search.parameter = "interface"
             /\ search.value = "eth0" ) => Matched = {"usb1", "usb3"}

C13_Witness ==
    /\ FilteredSearch
    /\ \A n \in FileNames : peripherals_dir[n].kind = "json"
    /\ peripherals_dir["usb1"].iface = "eth0"
    /\ peripherals_dir["usb2"].iface = "eth1"
    /\ peripherals_dir["usb3"].iface = "eth0"
    /\ search.parameter = "interface"
    /\ search.value = "eth0"
    /\ Matched = {"usb1", "usb3"}

\* C14: a create whose remote create failed returns the NuvlaError's own
\* status code and body, or 500 for any other exception; it has written no
\* record file and issued no remote delete.
C14_RemoteCreateFailure ==
    \A out \in AddOutcomes :
        (Returned("post") /\ result[1].adds = <<out>> /\ out.kind # "ok") =>
            /\ result[1].kind = "return"
            /\ out.kind = "nuvla_error" =>
                   result[1].status = out.code /\ result[1].body = "remote_error"
            /\ out.kind = "exception" =>
                   result[1].status = 500 /\ result[1].body = "unable_post"
            /\ files = result[1].files0
            /\ result[1].dels = <<>>

C14_Witness ==
    /\ Returned("post")
    /\ Len(result[1].adds) = 1
    /\ result[1].adds[1].kind = "nuvla_error"
    /\ result[1].status = 503
    /\ \E i \in Identifiers : files[i].kind = "json"

\* C15: delete(identifier) with no remote id given and no record file for
\* the identifier returns 404 (not found), issues no remote call and leaves
\* the record files as they were.
C15_DeleteUnknown ==
    (/\ Returned("delete")
     /\ result[1].explicit = None
     /\ result[1].files0[result[1].identifier] = NoFile) =>
        /\ result[1].kind = "return"
        /\ result[1].status = 404
        /\ result[1].body = "not_found"
        /\ result[1].adds = <<>>
        /\ result[1].dels = <<>>
        /\ files = result[1].files0

C15_Witness ==
    /\ Returned("delete")
    /\ result[1].explicit = None
    /\ result[1].files0[result[1].identifier] = NoFile
    /\ result[1].status = 404
    /\ remote # {}

\* C16 (as claimed): delete(identifier, remote id) with no record file for
\* the identifier issues one remote delete, for that id, leaves the record
\* files as they were and returns what that call answered, success or the
\* error's status code and body, whatever the remote answers.
C16_DeleteRemoteOnly ==
    (/\ Returned("delete")
     /\ result[1].explicit # None
     /\ result[1].files0[result[1].identifier] = NoFile) =>
        /\ result[1].kind = "return"
        /\ Len(result[1].dels) = 1
        /\ result[1].dels[1].id = result[1].explicit
        /\ result[1].status = result[1].dels[1].out.code
        /\ files = result[1].files0

\* C17: create answers 400 to a payload that is no JSON object or has no
\* 'identifier', issues no remote call and leaves the record files as they
\* were.
C17_InvalidPayloadRejected ==
    (Returned("post") /\ result[1].payload_kind \in {"malformed", "noident"}) =>
        /\ result[1].kind = "return"
        /\ result[1].status = 400
        /\ result[1].body \in {"malformed", "incomplete"}
        /\ result[1].adds = <<>>
        /\ result[1].dels = <<>>
        /\ files = result[1].files0

C17_Witness ==
    /\ Returned("post")
    /\ result[1].payload_kind = "noident"
    /\ result[1].status = 400
    /\ \E i \in Identifiers : files[i].kind = "json"

\* C18 (as claimed): the telemetry loop has no terminal state: whatever a
\* step of a cycle did, failed or timed out included, the main thread is
\* still in the loop and goes on to a next cycle.
C18_LoopHasNoTerminalState == mpc # "crashed"

\* C19 (as claimed): diff takes a key of the schema that the new snapshot
\* lacks as a None value: it completes, with the key in the delete list and
\* not in the update map.
C19_AbsentKeyAsNone ==
    \A k \in Keys :
        (diffed # NoDiff /\ k \notin DOMAIN snapshot) =>
            /\ diffed.kind = "ok"
            /\ k \in Deleted(diffed)
            /\ k \notin DOMAIN diffed.minimal_update

\* C20 (as claimed): when the remote delete that create issues after its
\* save failed fails too, by a NuvlaError or by any other exception, create
\* does not raise it: it returns the 500 of the failed save.
C20_CompensationFailureMasked ==
    (/\ Returned("post")
     /\ result[1].saveFailed
     /\ result[1].dels # <<>>
     /\ result[1].dels[Len(result[1].dels)].out.kind # "ok") =>
        /\ result[1].kind = "return"
        /\ result[1].status = 500
        /\ result[1].body = "unable_fulfill"

\* self.status once the n-th call of update_status has ended.
StatusAfter(n) == IF n < Len(update_log) THEN update_log[n + 1].status0 ELSE status

\* The n-th call of update_status got its _cimi_put through.
PutDone(n) == update_log[n].outcome \in {"write_exception", "returned"}

\* C21: after a call of update_status whose put went through, self.status is
\* the snapshot collected in that call; the first call puts every field of
\* the schema that is not None; a call that follows a put and collects the
\* same snapshot puts no field of the schema.
C21_StatusIsLastPublished ==
    \A n \in 1 .. Len(update_log) :
        PutDone(n) =>
            /\ StatusAfter(n) = update_log[n].snapshot
            /\ n = 1 => DOMAIN update_log[n].diffed.minimal_update =
                            {k \in Keys : update_log[n].snapshot[k] # PyNone}
            /\ (n > 1 /\ PutDone(n - 1)
                      /\ update_log[n].snapshot = update_log[n - 1].snapshot) =>
                   DOMAIN update_log[n].diffed.minimal_update = {}

C21_Witness ==
    /\ Len(update_log) = 2
    /\ PutDone(1)
    /\ PutDone(2)
    /\ update_log[1].snapshot = update_log[2].snapshot
    /\ update_log[1].snapshot["ip"] = PyNone
    /\ DOMAIN update_log[2].diffed.minimal_update = {}
    /\ status = update_log[2].snapshot

\* C22 (as claimed): find with parameter and value given does not fail on a
\* file it cannot open or cannot parse: it passes over that file, returns the
\* identifiers of the other files that match, and touches neither Nuvla nor
\* the record files.
C22_FindSkipsBadFiles ==
    (/\ matched # NoMatch
     /\ Truthy(search.parameter)
     /\ Truthy(search.value)) =>
        /\ matched.kind = "return"
        /\ Matched = {n \in FileNames :
                         /\ Truthy(search.identifier_pattern) =>
                                n = search.identifier_pattern
                         /\ peripherals_dir[n].kind = "json"
                         /\ search.parameter = "interface"
                         /\ peripherals_dir[n].iface = search.value}
        /\ remote = {}
        /\ files = EmptyDir

\* C23: refresh_interval and nuvlabox_info_updated_date change in no step
\* but the one that fetched a resource whose 'updated' differs from
\* nuvlabox_info_updated_date, which sets both to the resource's values; a
\* cycle that fetched a resource with the same 'updated' leaves both alone.
C23_ConfigRefreshFrame ==
    [][ /\ ( \/ refresh_interval' # refresh_interval
             \/ nuvlabox_info_updated_date' # nuvlabox_info_updated_date ) =>
               /\ mpc = "get_info"
               /\ nuvlabox_resource'.updated # nuvlabox_info_updated_date
               /\ refresh_interval' = nuvlabox_resource'.refresh
               /\ nuvlabox_info_updated_date' = nuvlabox_resource'.updated
        /\ ( /\ mpc = "get_info"
             /\ mpc' = "vpn"
             /\ nuvlabox_resource'.updated # nuvlabox_info_updated_date ) =>
               /\ refresh_interval' = nuvlabox_resource'.refresh
               /\ nuvlabox_info_updated_date' = nuvlabox_resource'.updated
      ]_vars

\* A second cycle fetched a resource with the date already seen and another
\* refresh interval than the one in use.
C23_Witness ==
    /\ cycle > 0
    /\ mpc = "vpn"
    /\ nuvlabox_resource.updated = nuvlabox_info_updated_date
    /\ nuvlabox_resource.refresh # refresh_interval

\* C24 (as claimed): under two request threads calling post and delete for
\* one identifier, once every call has returned each resource that a post
\* created and no delete deleted in Nuvla has a record file holding its id:
\* no delete has removed the record a later post wrote.
C24_DeleteSparesLaterCreate ==
    (\A t \in Threads : pc[t] = "idle") =>
        \A r \in remote :
            \E i \in Identifiers : files[i].kind = "json" /\ files[i].id = r

\* The fields of the schema the n-th call of update_status found changed.
Differed(n) ==
    DOMAIN update_log[n].diffed.minimal_update \cup Deleted(update_log[n].diffed)

\* C25: a call of update_status whose _cimi_put raised leaves self.status as
\* it was, so a field its diff held is in the diff the next call computes
\* too, unless the next snapshot has the field back at its old value.
C25_FailedPublishKeepsStatus ==
    \A n \in 1 .. Len(update_log) :
        update_log[n].outcome = "put_exception" =>
            /\ StatusAfter(n) = update_log[n].status0
            /\ (n < Len(update_log) /\ update_log[n + 1].diffed.kind = "ok") =>
                   \A k \in Differed(n) :
                       update_log[n + 1].snapshot[k] # update_log[n].status0[k]
                           => k \in Differed(n + 1)

C25_Witness ==
    /\ Len(update_log) = 2
    /\ update_log[1].outcome = "put_exception"
    /\ "resources" \in Differed(1)
    /\ update_log[2].outcome = "returned"
    /\ update_log[2].snapshot # update_log[1].snapshot
    /\ "resources" \in Differed(2)
    /\ status = update_log[2].snapshot

\* C26: delete(identifier) with no remote id given, on a record file from
\* which no id can be read, removes the file, issues no remote delete and
\* returns 200.
C26_DeleteUnreadableRecord ==
    (/\ Returned("delete")
     /\ result[1].explicit = None
     /\ result[1].files0[result[1].identifier] # NoFile
     /\ \/ result[1].files0[result[1].identifier].kind # "json"
        \/ result[1].files0[result[1].identifier].id = None) =>
        /\ result[1].kind = "return"
        /\ result[1].status = 200
        /\ result[1].body = "deleted_message"
        /\ result[1].dels = <<>>
        /\ files = [result[1].files0 EXCEPT ![result[1].identifier] = NoFile]

C26_Witness ==
    /\ Returned("delete")
    /\ result[1].explicit = None
    /\ result[1].files0[result[1].identifier] = Corrupt
    /\ result[1].status = 200
    /\ files[result[1].identifier] = NoFile
    /\ remote # {}

\* C27: when a cycle took T seconds with 0 <= T <= R, R the refresh interval,
\* T plus the wait that follows is at most R: the next cycle starts no later
\* than R after this one did.
C27_PeriodWithinInterval ==
    (CycleDone /\ 0 <= cycle_duration /\ cycle_duration <= refresh_interval) =>
        /\ cycle_duration + waited <= refresh_interval
        /\ cycle_duration + next_cycle_in <= refresh_interval

C27_Witness ==
    /\ CycleDone
    /\ cycle_duration > 0
    /\ cycle_duration <= refresh_interval
    /\ 2 * cycle_duration > refresh_interval
    /\ cycle_duration + waited = cycle_duration
    /\ cycle_duration + waited < refresh_interval

====
